---- MODULE Spec2Model ----
(***************************************************************************)
(* Model of safe_learning/lyapunov.py: the bisection line search and the   *)
(* Lyapunov safe-set engine (Lyapunov, LyapunovContinuous,                  *)
(* LyapunovDiscrete).                                                       *)
(*                                                                          *)
(* Numbers.  Lyapunov values, interval ends, accuracies and level-set       *)
(* values are fixed-point numbers: the integer x stands for x / Scale.      *)
(* Every input is a whole number of units (a multiple of Scale), every      *)
(* accuracy is at least one unit and no interval is wider than MaxWidth     *)
(* <= Scale units, so each midpoint (lo + hi) / 2 the bisection takes is    *)
(* an integer and the model computes exactly what real arithmetic gives     *)
(* (MidpointsExact states it).  Decrease values (v_dot, v_dot_error,        *)
(* threshold) are plain integers.  The rounding of Python floats is         *)
(* modelled apart, in the floating-point line search (SpecFloat).           *)
(*                                                                          *)
(* Grid points are indexed by nondecreasing Lyapunov value, as on the       *)
(* tests' grid [0, 1, 2, 3] with V = |x|; every operation of the engine is  *)
(* pointwise or a reduction over a mask, hence invariant under a            *)
(* permutation of the grid.  Lyapunov values are nonnegative.               *)
(***************************************************************************)
EXTENDS Integers, Sequences, FiniteSets

\* ---------------------------------------------------------------- bounds
NumPoints == 3       \* grid points
MaxV == 3            \* largest Lyapunov value, in units
MaxAcc == 2          \* largest accuracy, in units
MaxLo == 1           \* largest lower end of a caller-supplied interval, in units
MaxBound == 4        \* largest upper end of a caller-supplied interval, in units
FloatBits == 3       \* significand bits of the floating-point format (a double has 53)
FloatMax == 32       \* largest interval end of a floating-point search, in spacings
FloatAccMax == 4     \* largest accuracy of a floating-point search, in spacings

RECURSIVE Pow2Above(_, _)
Pow2Above(p, w) == IF p >= w THEN p ELSE Pow2Above(2 * p, w)

MaxWidth == IF MaxBound > MaxV + MaxAcc THEN MaxBound ELSE MaxV + MaxAcc
Scale == Pow2Above(2, MaxWidth)
MaxRaw == MaxWidth * Scale

Points == 1..NumPoints
None == <<>>

Max(S) == CHOOSE x \in S : \A y \in S : y <= x

\* ------------------------------------------------------------ input sets
\* Lyapunov value vectors: lyapunov_function(discretization).squeeze()
Values == {v * Scale : v \in 0..MaxV}
ValueVectors == {f \in [Points -> Values] : \A i, j \in Points : i <= j => f[i] <= f[j]}
Accuracies == {a * Scale : a \in 1..MaxAcc}
\* accuracies of a direct search: from MaxBound / Scale of a unit upwards,
\* whole units or not
SearchAccuracies == MaxBound..(MaxAcc * Scale)
Intervals == UNION {{<<lo * Scale, hi * Scale>> : hi \in lo..MaxBound} : lo \in 0..MaxLo}
SearchIntervals ==
    UNION {{<<lo * Scale, hi * Scale>> : hi \in lo..MaxBound} : lo \in 0..MaxBound}
\* Predicates handed to the line search: the threshold predicates x < c (the
\* tests' objective), and the predicates that are constant on each unit cell
\* [k, k + 1) and true on the cells of a set, monotone or not.
Predicates ==
    {[kind |-> "lt", c |-> c, cells |-> {}] : c \in 0..(MaxBound * Scale + 1)} \cup
    {[kind |-> "in", c |-> 0, cells |-> S] : S \in SUBSET (0..MaxBound)}
\* (mean, error bound) of the decrease at one grid point, as the active
\* specialization's v_decrease_confidence computes it from the dynamics
DecreaseCases == {<<-3, 0>>, <<-3, 1>>, <<-2, 1>>}
Kinds == {"Lyapunov", "LyapunovContinuous", "LyapunovDiscrete"}
NotImplementedError == "NotImplementedError"
ValueError == "ValueError"

VARIABLES
    kind,                \* the engine's class
    epsilon,             \* self.epsilon
    lipschitz,           \* self.lipschitz / self.lipschitz_lyapunov
    lipschitz_dynamics,  \* self.lipschitz_dynamics
    V,                   \* self.V
    initial_safe_set,    \* self.initial_safe_set (None or a boolean array)
    v_dot,               \* mean decrease returned by v_decrease_confidence
    v_dot_error,         \* error bound returned by v_decrease_confidence
    safe_set,            \* self.safe_set
    v_dot_negative,      \* self.v_dot_negative
    cmax,                \* self.cmax
    interval,            \* the list object passed as interval to the last call, as
                         \* it stands after the call (None: no list was passed)
    last,                \* the last call on the engine and its outcome
    ls,                  \* the last direct call of line_search_bisection
    fs                   \* a call of line_search_bisection on floating-point
                         \* numbers, statement by statement

vars == <<kind, epsilon, lipschitz, lipschitz_dynamics, V, initial_safe_set,
          v_dot, v_dot_error, safe_set, v_dot_negative, cmax, interval, last, ls,
          fs>>

config == <<kind, epsilon, lipschitz, lipschitz_dynamics, V, initial_safe_set,
            v_dot, v_dot_error>>
engine == <<safe_set, v_dot_negative, cmax>>

\* ------------------------------------------------- line_search_bisection
\* f(x) for the predicate p
pred_holds(p, x) ==
    IF p.kind = "lt" THEN x < p.c ELSE (x \div Scale) \in p.cells

pred_fn(p) == [x \in 0..MaxRaw |-> pred_holds(p, x)]

\* The while loop: b is the list `bound`, n the number of predicate
\* evaluations made so far.
RECURSIVE bisect_swapped(_, _, _, _)
bisect_swapped(f, b, accuracy, n) ==
    IF b[2] - b[1] > accuracy
    THEN LET mean == (b[1] + b[2]) \div 2
         IN IF f[mean]
            THEN bisect_swapped(f, <<b[1], mean>>, accuracy, n + 1)
            ELSE bisect_swapped(f, <<mean, b[2]>>, accuracy, n + 1)
    ELSE [bound |-> b, evals |-> n]

RECURSIVE bisect_loop(_, _, _, _)
bisect_loop(f, b, accuracy, n) ==
    IF b[2] - b[1] > accuracy
    THEN LET mean == (b[1] + b[2]) \div 2
         IN IF f[mean]
            THEN bisect_loop(f, <<mean, b[2]>>, accuracy, n + 1)
            ELSE bisect_loop(f, <<b[1], mean>>, accuracy, n + 1)
    ELSE [bound |-> b, evals |-> n]

bisect_coarse(f, b, accuracy, n) == bisect_loop(f, b, 2 * accuracy, n)

bisect_do_while(f, b, accuracy, n) ==
    LET mean == (b[1] + b[2]) \div 2
    IN IF f[mean]
       THEN bisect_loop(f, <<mean, b[2]>>, accuracy, n + 1)
       ELSE bisect_loop(f, <<b[1], mean>>, accuracy, n + 1)

bisect(f, b, accuracy, n) == bisect_loop(f, b, accuracy, n)

\* found = FALSE is the None result.  bound is what the list passed in holds
\* when the function returns: the function works on the caller's list.
line_search_no_upper_check(f, bound, accuracy) ==
    IF ~f[bound[1]]
    THEN [found |-> FALSE, bound |-> bound, evals |-> 1]
    ELSE LET r == bisect(f, bound, accuracy, 2)
         IN [found |-> TRUE, bound |-> r.bound, evals |-> r.evals]

line_search_bisection(f, bound, accuracy) ==
    IF ~f[bound[1]]
    THEN [found |-> FALSE, bound |-> bound, evals |-> 1]
    ELSE IF f[bound[2]]
    THEN [found |-> TRUE, bound |-> <<bound[2], bound[2]>>, evals |-> 2]
    ELSE LET r == bisect(f, bound, accuracy, 2)
         IN [found |-> TRUE, bound |-> r.bound, evals |-> r.evals]

\* ------------------------------------------- floating-point arithmetic
\* The interval ends, the midpoint and the accuracy are Python floats.  A
\* float of the model is a natural number of spacings with at most FloatBits
\* significant bits; the numbers below 2^FloatBits are all floats (the
\* spacing does not shrink further), above them the spacing doubles with
\* each binade.  Every operation rounds its exact result to the nearest
\* float, ties to the even significand.
RECURSIVE Pow2(_)
Pow2(e) == IF e = 0 THEN 1 ELSE 2 * Pow2(e - 1)

RECURSIVE is_float(_)
is_float(n) == n < Pow2(FloatBits) \/ (n % 2 = 0 /\ is_float(n \div 2))

AllFloats == {n \in 0..(4 * FloatMax) : is_float(n)}

fl_round(n) ==
    LET down == CHOOSE x \in AllFloats :
                    x <= n /\ \A y \in AllFloats : y <= n => y <= x
        up == CHOOSE x \in AllFloats :
                  x >= n /\ \A y \in AllFloats : y >= n => y >= x
    IN IF n - down < up - n THEN down
       ELSE IF n - down > up - n THEN up
       ELSE IF down = up THEN n
       ELSE IF (down \div (up - down)) % 2 = 0 THEN down
       ELSE up

\* x / 2: exact unless x is an odd number of spacings
fl_half(x) ==
    IF x % 2 = 0 THEN x \div 2
    ELSE IF (x \div 2) % 2 = 0 THEN x \div 2
    ELSE x \div 2 + 1

\* (bound[0] + bound[1]) / 2
fl_mean(lo, hi) == fl_half(fl_round(lo + hi))

\* bound[1] - bound[0]
fl_sub(hi, lo) == fl_round(hi - lo)

\* the floats a caller passes: interval ends, the threshold of the
\* predicate x < c, the accuracy (> 0)
Floats == {n \in AllFloats : n <= FloatMax}
FloatAccuracies == {a \in AllFloats : 1 <= a /\ a <= FloatAccMax}

\* the evaluation count stops growing here, above 2 + log2(FloatMax)
MaxEvals == FloatMax \div 2

\* ------------------------------------------------------------ the engine
\* v_decrease_confidence: abstract in Lyapunov, computed from the dynamics
\* in the two specializations.  Both specializations build the mean in a
\* fresh array on every call (np.sum(...), a difference of two arrays), so
\* the in-place `v_dot_bound += v_dot_error` of v_decrease_bound never
\* reaches state that outlives the call.
v_decrease_confidence ==
    IF kind = "Lyapunov"
    THEN [raised |-> NotImplementedError]
    ELSE [raised |-> "", mean |-> v_dot, error |-> v_dot_error]

v_decrease_bound ==
    LET c == v_decrease_confidence
    IN IF c.raised # ""
       THEN [raised |-> c.raised]
       ELSE [raised |-> "", value |-> [i \in Points |-> c.mean[i] + c.error[i]]]

threshold_zero_on_base ==
    CASE kind = "LyapunovContinuous" ->
           [raised |-> "", value |-> (0 - lipschitz) * epsilon]
      [] kind = "LyapunovDiscrete" ->
           [raised |-> "", value |-> (0 - lipschitz) * (1 + lipschitz_dynamics) * epsilon]
      [] OTHER -> [raised |-> "", value |-> 0]

threshold ==
    CASE kind = "LyapunovContinuous" ->
           [raised |-> "", value |-> (0 - lipschitz) * epsilon]
      [] kind = "LyapunovDiscrete" ->
           [raised |-> "", value |-> (0 - lipschitz) * (1 + lipschitz_dynamics) * epsilon]
      [] OTHER -> [raised |-> NotImplementedError]

\* np.all(self.v_dot_negative[self.V <= c]), on the array S
levelset_is_safe(S, c) == \A i \in Points : V[i] <= c => S[i]

\* a default interval that reaches only the smallest Lyapunov value
np_min(A) == CHOOSE x \in {A[i] : i \in DOMAIN A} : \A j \in DOMAIN A : x <= A[j]

np_max(A) == Max({A[i] : i \in DOMAIN A})

\* a search that always reports the infeasible result
max_safe_levelset_infeasible(S, accuracy, arg) ==
    [raised |-> "", c |-> 0, found |-> FALSE,
     bound |-> IF arg = None THEN <<0, np_max(V) + accuracy>> ELSE arg, evals |-> 1]

\* max_safe_levelset on the array S = self.v_dot_negative.  arg is the
\* interval argument (None: the default).  bound is what the searched list
\* holds when the call ends; np.max of an empty selection raises ValueError.
max_safe_levelset(S, accuracy, arg) ==
    LET bound0 == IF arg = None THEN <<0, np_max(V) + accuracy>> ELSE arg
        f == [c \in 0..MaxRaw |-> levelset_is_safe(S, c)]
        r == line_search_bisection(f, bound0, accuracy)
        below == {V[i] : i \in {j \in Points : V[j] <= r.bound[1]}}
    IN IF ~r.found
       THEN [raised |-> "", c |-> 0, found |-> FALSE, bound |-> r.bound, evals |-> r.evals]
       ELSE IF below = {}
       THEN [raised |-> ValueError, c |-> 0, found |-> TRUE, bound |-> r.bound,
             evals |-> r.evals]
       ELSE [raised |-> "", c |-> Max(below), found |-> TRUE, bound |-> r.bound,
             evals |-> r.evals]

\* v_dot_bound < self.threshold, then |= self.initial_safe_set
constraint_not_strict(v_dot_bound, thr, initial, include_initial) ==
    [i \in Points |-> \/ v_dot_bound[i] <= thr
                      \/ include_initial /\ initial # None /\ initial[i]]

constraint(v_dot_bound, thr, initial, include_initial) ==
    [i \in Points |-> \/ v_dot_bound[i] < thr
                      \/ include_initial /\ initial # None /\ initial[i]]

safety_constraint(include_initial) ==
    LET b == v_decrease_bound
        t == threshold
    IN IF b.raised # ""
       THEN [raised |-> b.raised]
       ELSE IF t.raised # ""
       THEN [raised |-> t.raised]
       ELSE [raised |-> "",
             value |-> constraint(b.value, t.value, initial_safe_set, include_initial)]

\* self.V <= self.cmax
sublevel_set_strict(c) == [i \in Points |-> V[i] < c]

sublevel_set(c) == [i \in Points |-> V[i] <= c]

\* ------------------------------------------------------------------ Init
NoCall ==
    [op |-> "__init__", accuracy |-> 0, arg |-> None, include |-> FALSE,
     raised |-> "", found |-> FALSE, bound |-> None, ret |-> None]

NoSearch ==
    [called |-> FALSE, pred |-> None, bound |-> None, accuracy |-> 0,
     found |-> FALSE, result |-> None, evals |-> 0]

NoFloatSearch ==
    [pc |-> "none", c |-> 0, accuracy |-> 0, arg |-> None, bound |-> None,
     found |-> FALSE, evals |-> 0]

\* Lyapunov.__init__ (and the specializations' __init__): safe_set is seeded
\* with the initial safe set, v_dot_negative is all false, cmax is 0.  The
\* engine's class is drawn from K, its Lyapunov values from VV, the decrease
\* its dynamics give at each point from DC (the base class computes none).
InitEngine(K, VV, DC) ==
    /\ kind \in K
    /\ epsilon = 1
    /\ lipschitz = 1
    /\ lipschitz_dynamics = 1
    /\ V \in VV
    /\ initial_safe_set \in {None} \cup [Points -> BOOLEAN]
    /\ \E d \in [Points -> DC] :
          /\ kind = "Lyapunov" => \A i \in Points : d[i] = <<-3, 0>>
          /\ v_dot = [i \in Points |-> d[i][1]]
          /\ v_dot_error = [i \in Points |-> d[i][2]]
    /\ safe_set = IF initial_safe_set = None
                  THEN [i \in Points |-> FALSE]
                  ELSE initial_safe_set
    /\ v_dot_negative = [i \in Points |-> FALSE]
    /\ cmax = 0
    /\ interval = None
    /\ last = NoCall

\* The tests' grid: V = |x| on the points 0, 1, 2, ...
GridV == [i \in Points |-> (IF i - 1 < MaxV THEN i - 1 ELSE MaxV) * Scale]

Init ==
    /\ InitEngine({"LyapunovContinuous"}, ValueVectors, {<<-3, 0>>, <<-2, 1>>})
    /\ ls = NoSearch
    /\ fs = NoFloatSearch

\* A caller about to search: the predicate, the interval list and the
\* accuracy it will pass.
InitSearch ==
    /\ InitEngine({"Lyapunov"}, {GridV}, DecreaseCases)
    /\ initial_safe_set = None
    /\ \E p \in Predicates, bound \in SearchIntervals, accuracy \in SearchAccuracies :
          ls = [NoSearch EXCEPT !.pred = p, !.bound = bound, !.accuracy = accuracy]
    /\ fs = NoFloatSearch

InitConstraint ==
    /\ InitEngine(Kinds, {GridV}, DecreaseCases)
    /\ ls = NoSearch
    /\ fs = NoFloatSearch

\* A caller about to search on floats: f(x) = x < c, the list [lo, hi] with
\* lo <= hi, and the accuracy.
InitFloat ==
    /\ InitEngine({"Lyapunov"}, {GridV}, DecreaseCases)
    /\ initial_safe_set = None
    /\ ls = NoSearch
    /\ \E c \in Floats, lo \in Floats, hi \in Floats, accuracy \in FloatAccuracies :
          /\ lo <= hi
          /\ fs = [pc |-> "lower", c |-> c, accuracy |-> accuracy, arg |-> <<lo, hi>>,
                   bound |-> <<lo, hi>>, found |-> FALSE, evals |-> 0]

\* --------------------------------------------------------------- actions
\* The interval arguments a caller can pass: none, a new list, or the list
\* object it passed before.
IntervalArgs == {None} \cup Intervals \cup {interval}

\* update_safe_set(accuracy, interval)
UpdateSafeSet(accuracy, arg) ==
    LET sc == safety_constraint(TRUE)
        call == [NoCall EXCEPT !.op = "update_safe_set", !.accuracy = accuracy,
                               !.arg = arg, !.include = TRUE]
    IN IF sc.raised # ""
       THEN /\ last' = [call EXCEPT !.raised = sc.raised]
            /\ interval' = arg
            /\ UNCHANGED <<config, engine, ls, fs>>
       ELSE LET r == max_safe_levelset(sc.value, accuracy, arg)
            IN /\ v_dot_negative' = sc.value
               /\ interval' = IF arg = None THEN None ELSE r.bound
               /\ last' = [call EXCEPT !.raised = r.raised, !.found = r.found,
                                       !.bound = r.bound]
               /\ IF r.raised # ""
                  THEN UNCHANGED <<cmax, safe_set>>
                  ELSE /\ cmax' = r.c
                       /\ safe_set' = sublevel_set(r.c)
               /\ UNCHANGED <<config, ls, fs>>

\* safety_constraint(self.policy, include_initial), called directly
SafetyConstraint(include_initial) ==
    LET sc == safety_constraint(include_initial)
    IN /\ last' = [NoCall EXCEPT !.op = "safety_constraint",
                                 !.include = include_initial, !.raised = sc.raised,
                                 !.ret = IF sc.raised = "" THEN sc.value ELSE None]
       /\ interval' = None
       /\ UNCHANGED <<config, engine, ls, fs>>

\* v_decrease_confidence(states, next_states), called directly
VDecreaseConfidence ==
    LET c == v_decrease_confidence
    IN /\ last' = [NoCall EXCEPT !.op = "v_decrease_confidence", !.raised = c.raised,
                                 !.ret = IF c.raised = "" THEN <<c.mean, c.error>>
                                         ELSE None]
       /\ interval' = None
       /\ UNCHANGED <<config, engine, ls, fs>>

\* reading the threshold property
Threshold ==
    LET t == threshold
    IN /\ last' = [NoCall EXCEPT !.op = "threshold", !.raised = t.raised,
                                 !.ret = IF t.raised = "" THEN t.value ELSE None]
       /\ interval' = None
       /\ UNCHANGED <<config, engine, ls, fs>>

\* line_search_bisection(f, bound, accuracy), called directly with the
\* predicate, list and accuracy the caller holds.  result is what the list
\* holds afterwards.
LineSearch ==
    LET r == line_search_bisection(pred_fn(ls.pred), ls.bound, ls.accuracy)
    IN /\ ~ls.called
       /\ ls' = [ls EXCEPT !.called = TRUE, !.found = r.found, !.result = r.bound,
                           !.evals = r.evals]
       /\ UNCHANGED <<config, engine, interval, last, fs>>

\* line_search_bisection on floats, one statement at a time.
\* if not f(bound[0]): return None
FloatLower ==
    /\ fs.pc = "lower"
    /\ fs' = [fs EXCEPT !.evals = 1,
                        !.pc = IF fs.bound[1] < fs.c THEN "upper" ELSE "return"]
    /\ UNCHANGED <<config, engine, interval, last, ls>>

\* if f(bound[1]): bound[0] = bound[1]; return bound
FloatUpper ==
    /\ fs.pc = "upper"
    /\ fs' = IF fs.bound[2] < fs.c
             THEN [fs EXCEPT !.evals = 2, !.found = TRUE, !.pc = "return",
                             !.bound = <<fs.bound[2], fs.bound[2]>>]
             ELSE [fs EXCEPT !.evals = 2, !.pc = "while"]
    /\ UNCHANGED <<config, engine, interval, last, ls>>

\* while bound[1] - bound[0] > accuracy:
FloatWhile ==
    /\ fs.pc = "while"
    /\ fs' = IF fl_sub(fs.bound[2], fs.bound[1]) > fs.accuracy
             THEN [fs EXCEPT !.pc = "body"]
             ELSE [fs EXCEPT !.found = TRUE, !.pc = "return"]
    /\ UNCHANGED <<config, engine, interval, last, ls>>

\* mean = (bound[0] + bound[1]) / 2; if f(mean): bound[0] = mean; else:
\* bound[1] = mean
FloatBody ==
    /\ fs.pc = "body"
    /\ LET mean == fl_mean(fs.bound[1], fs.bound[2])
           n == IF fs.evals < MaxEvals THEN fs.evals + 1 ELSE fs.evals
       IN fs' = IF mean < fs.c
                THEN [fs EXCEPT !.pc = "while", !.evals = n,
                                !.bound = <<mean, fs.bound[2]>>]
                ELSE [fs EXCEPT !.pc = "while", !.evals = n,
                                !.bound = <<fs.bound[1], mean>>]
    /\ UNCHANGED <<config, engine, interval, last, ls>>

Next ==
    \/ \E accuracy \in Accuracies, arg \in IntervalArgs : UpdateSafeSet(accuracy, arg)
    \/ \E include_initial \in BOOLEAN : SafetyConstraint(include_initial)
    \/ VDecreaseConfidence
    \/ Threshold

NextSearch == LineSearch

Spec == Init /\ [][Next]_vars

SpecConstraint == InitConstraint /\ [][Next]_vars

SpecSearch == InitSearch /\ [][NextSearch]_vars

NextFloat == FloatLower \/ FloatUpper \/ FloatWhile \/ FloatBody

\* the interpreter runs the call on: a statement that can change the state is
\* eventually executed
SpecFloat == InitFloat /\ [][NextFloat]_vars /\ WF_vars(NextFloat)

\* ----------------------------------------------------- exact arithmetic
\* Every midpoint a search of the model takes is a whole fixed-point number.
RECURSIVE midpoints_exact(_, _, _)
midpoints_exact(f, b, accuracy) ==
    IF b[2] - b[1] > accuracy
    THEN /\ (b[1] + b[2]) % 2 = 0
         /\ LET mean == (b[1] + b[2]) \div 2
            IN IF f[mean]
               THEN midpoints_exact(f, <<mean, b[2]>>, accuracy)
               ELSE midpoints_exact(f, <<b[1], mean>>, accuracy)
    ELSE TRUE

MidpointsExact ==
    /\ ls.pred # None => midpoints_exact(pred_fn(ls.pred), ls.bound, ls.accuracy)
    /\ (last.op = "update_safe_set" /\ last.raised # NotImplementedError) =>
          midpoints_exact([c \in 0..MaxRaw |-> levelset_is_safe(v_dot_negative, c)],
                          IF last.arg = None
                          THEN <<0, np_max(V) + last.accuracy>>
                          ELSE last.arg,
                          last.accuracy)

\* ------------------------------------------------------------ the claims
Updated == last.op = "update_safe_set" /\ last.raised = ""

\* C1: the value max_safe_levelset returns, stored as cmax by
\* update_safe_set, leaves no grid point with V <= cmax whose v_dot_negative
\* is false; every point of safe_set satisfies v_dot_negative.
C1_LevelSetIsSafe ==
    Updated => \A i \in Points :
                  /\ V[i] <= cmax => v_dot_negative[i]
                  /\ safe_set[i] => v_dot_negative[i]

\* C2: after an update_safe_set that returns normally, safe_set is true
\* exactly at the grid points with V <= cmax.
C2_SafeSetIsSublevelSet ==
    Updated => \A i \in Points : safe_set[i] <=> V[i] <= cmax

C2_Witness ==
    /\ Updated
    /\ cmax > 0
    /\ \E i, j \in Points : safe_set[i] /\ ~safe_set[j]

\* C3: on an engine with an initial safe set, after update_safe_set every
\* point of the initial safe set is in safe_set.  Stated for the calls that
\* search the default interval, which reaches beyond every Lyapunov value.
C3_InitialSetInSafeSet ==
    (Updated /\ last.arg = None /\ initial_safe_set # None) =>
        \A i \in Points : initial_safe_set[i] => safe_set[i]

\* C4: safety_constraint(policy, include_initial) is true at a point exactly
\* when mean + error < threshold (strictly) or include_initial holds and the
\* point is in the initial safe set; so after update_safe_set every point of
\* the initial safe set has v_dot_negative true.
C4_SafetyConstraint ==
    /\ (last.op = "safety_constraint" /\ last.raised = "") =>
          \A i \in Points :
              last.ret[i] <=>
                  \/ v_dot[i] + v_dot_error[i] < threshold.value
                  \/ last.include /\ initial_safe_set # None /\ initial_safe_set[i]
    /\ (last.op = "update_safe_set" /\ last.raised # NotImplementedError
            /\ initial_safe_set # None) =>
          \A i \in Points : initial_safe_set[i] => v_dot_negative[i]

C4_Witness ==
    /\ last.op = "safety_constraint"
    /\ last.raised = ""
    /\ last.include
    /\ initial_safe_set # None
    /\ \E i, j \in Points :
          /\ initial_safe_set[i]
          /\ v_dot[i] + v_dot_error[i] >= threshold.value
          /\ last.ret[i]
          /\ ~initial_safe_set[j]
          /\ v_dot[j] + v_dot_error[j] = threshold.value
          /\ ~last.ret[j]

\* C5: line_search_bisection returns None exactly when f(lo) is false; with
\* f(lo) and f(hi) true it returns [hi, hi]; otherwise it returns [lo', hi']
\* with lo <= lo' <= hi' <= hi, hi' - lo' <= accuracy, f(lo') true and f(hi')
\* false.  f(lo') and hi' - lo' <= accuracy hold for every predicate.
C5_LineSearchContract ==
    ls.called =>
        LET lo == ls.bound[1]
            hi == ls.bound[2]
            flo == pred_holds(ls.pred, lo)
            fhi == pred_holds(ls.pred, hi)
        IN /\ ~ls.found <=> ~flo
           /\ (flo /\ fhi) => ls.result = <<hi, hi>>
           /\ (flo /\ ~fhi) =>
                  /\ lo <= ls.result[1]
                  /\ ls.result[1] <= ls.result[2]
                  /\ ls.result[2] <= hi
                  /\ ~pred_holds(ls.pred, ls.result[2])
           /\ ls.found =>
                  /\ pred_holds(ls.pred, ls.result[1])
                  /\ ls.result[2] - ls.result[1] <= ls.accuracy

\* a search that bisected a predicate that is not monotone
C5_Witness ==
    /\ ls.called
    /\ ls.found
    /\ ls.evals > 3
    /\ ls.pred.kind = "in"
    /\ \E k \in 0..MaxBound : k \notin ls.pred.cells /\ k + 1 \in ls.pred.cells
    /\ ls.result[1] > ls.bound[1]
    /\ ls.result[2] < ls.bound[2]

\* C6: for f(x) = x < c with lo < c <= hi the returned [lo', hi'] brackets
\* the threshold, lo' < c <= hi', and lo' is within the accuracy of c.
C6_ThresholdBracketed ==
    (ls.called /\ ls.pred.kind = "lt" /\ ls.bound[1] < ls.pred.c
        /\ ls.pred.c <= ls.bound[2]) =>
        /\ ls.found
        /\ ls.result[1] < ls.pred.c
        /\ ls.pred.c <= ls.result[2]
        /\ ls.pred.c - ls.accuracy <= ls.result[1]

C6_Witness ==
    /\ ls.called
    /\ ls.pred.kind = "lt"
    /\ ls.bound[1] < ls.pred.c
    /\ ls.pred.c <= ls.bound[2]
    /\ ls.pred.c % Scale # 0
    /\ ls.evals > 3
    /\ ls.result[1] > ls.bound[1]
    /\ ls.result[2] < ls.bound[2]

\* C7: update_safe_set is idempotent: a second call with the same accuracy
\* and the same interval argument (an equal interval, or the very list
\* object the first call was given) leaves cmax, safe_set and v_dot_negative
\* as the first call left them.
C7_SameArguments ==
    /\ last.op = "update_safe_set"
    /\ last'.op = "update_safe_set"
    /\ last'.accuracy = last.accuracy
    /\ \/ last'.arg = last.arg
       \/ last.arg # None /\ last'.arg = interval

C7_UpdateIdempotent ==
    [][C7_SameArguments =>
          /\ cmax' = cmax
          /\ safe_set' = safe_set
          /\ v_dot_negative' = v_dot_negative]_vars

\* the list a search has narrowed, passed again with the accuracy that
\* narrowed it
C7_Witness ==
    /\ Updated
    /\ last.arg # None
    /\ last.arg[1] % Scale # 0
    /\ last.arg = last.bound
    /\ last.arg[2] - last.arg[1] <= last.accuracy
    /\ 2 * (last.arg[2] - last.arg[1]) > last.accuracy
    /\ cmax > 0
    /\ \E i \in Points : ~safe_set[i]

\* C8: update_safe_set is monotone: an engine with the same V, decrease
\* bounds, accuracy and interval but a looser threshold or a larger initial
\* safe set computes a cmax that is not smaller.
LooserThresholds == threshold.value..0
LargerInitialSets ==
    {initial_safe_set} \cup
    {J \in [Points -> BOOLEAN] :
        initial_safe_set # None => \A i \in Points : initial_safe_set[i] => J[i]}

C8_CmaxOfLooser(thr, initial) ==
    max_safe_levelset(constraint(v_decrease_bound.value, thr, initial, TRUE),
                      last.accuracy, last.arg)

C8_UpdateMonotone ==
    Updated =>
        \A thr \in LooserThresholds, initial \in LargerInitialSets :
            LET r == C8_CmaxOfLooser(thr, initial)
            IN r.raised = "" /\ r.c >= cmax

C8_Witness ==
    /\ Updated
    /\ cmax > 0
    /\ \E thr \in LooserThresholds : C8_CmaxOfLooser(thr, initial_safe_set).c > cmax
    /\ \E initial \in LargerInitialSets :
          C8_CmaxOfLooser(threshold.value, initial).c > cmax

\* C9: max_safe_levelset completes without raising: it returns 0 when the
\* line search reports infeasibility and otherwise the largest V[i] among
\* the points with V[i] <= lo', the lower end of the returned interval.
C9_MaxSafeLevelsetCompletes ==
    last.op = "update_safe_set" =>
        /\ last.raised = ""
        /\ ~last.found => cmax = 0
        /\ last.found =>
              /\ \E i \in Points : V[i] <= last.bound[1] /\ V[i] = cmax
              /\ \A i \in Points : V[i] <= last.bound[1] => V[i] <= cmax

\* C10: on the base engine v_decrease_confidence, threshold,
\* safety_constraint and update_safe_set fail with the unimplemented
\* operation signal, and the failed update_safe_set leaves safe_set, cmax and
\* v_dot_negative as they were.
C10_BaseCall ==
    /\ kind = "Lyapunov"
    /\ last'.op \in {"v_decrease_confidence", "threshold", "safety_constraint",
                     "update_safe_set"}

C10_BaseEngineUnimplemented ==
    [][C10_BaseCall =>
          /\ last'.raised = NotImplementedError
          /\ UNCHANGED <<safe_set, cmax, v_dot_negative>>]_vars

C10_Witness ==
    /\ kind = "Lyapunov"
    /\ last.op = "update_safe_set"
    /\ last.raised = NotImplementedError
    /\ last.arg # None
    /\ initial_safe_set # None
    /\ \E i \in Points : safe_set[i]
    /\ \A i \in Points : safe_set[i] = initial_safe_set[i] /\ ~v_dot_negative[i]
    /\ cmax = 0

\* C11: when the decrease condition, after including the initial safe set,
\* holds at every grid point and update_safe_set searches the default
\* interval [0, max(V) + accuracy], the call returns with v_dot_negative and
\* safe_set true at every point and cmax = max(V), so
\* max(V) <= cmax <= max(V) + accuracy.
C11_DefaultCall ==
    /\ last.op = "update_safe_set"
    /\ last.raised # NotImplementedError
    /\ last.arg = None
    /\ \A i \in Points : v_dot_negative[i]

C11_AllSafeGivesMaxV ==
    C11_DefaultCall =>
        LET maxV == Max({V[i] : i \in Points})
        IN /\ last.raised = ""
           /\ \A i \in Points : safe_set[i]
           /\ cmax = maxV
           /\ maxV <= cmax
           /\ cmax <= maxV + last.accuracy

\* every point passes, one of them only through the initial safe set, on a
\* grid with more than one Lyapunov value
C11_Witness ==
    /\ C11_DefaultCall
    /\ last.raised = ""
    /\ cmax > 0
    /\ V[1] < cmax
    /\ \E i \in Points : v_dot[i] + v_dot_error[i] >= threshold.value
    /\ \E i \in Points : v_dot[i] + v_dot_error[i] < threshold.value

\* C13: max_safe_levelset is complete up to the accuracy: on the default
\* interval, with min(V) = 0, every point with V <= 0 passing and some point
\* failing, the returned c is below c*, the smallest Lyapunov value of a
\* failing point, and every grid point with c < V[i] < c* (a passing point
\* left out of the certified level set) has V[i] > c* - accuracy.
C13_Failing == {i \in Points : ~v_dot_negative[i]}
C13_CStar == CHOOSE c \in {V[i] : i \in C13_Failing} : \A i \in C13_Failing : c <= V[i]

C13_Case ==
    /\ last.op = "update_safe_set"
    /\ last.raised # NotImplementedError
    /\ last.arg = None
    /\ \E i \in Points : V[i] = 0
    /\ \A i \in Points : V[i] <= 0 => v_dot_negative[i]
    /\ C13_Failing # {}

C13_CompleteUpToAccuracy ==
    C13_Case =>
        /\ last.raised = ""
        /\ cmax < C13_CStar
        /\ \A i \in Points :
              (cmax < V[i] /\ V[i] < C13_CStar) => V[i] > C13_CStar - last.accuracy

\* a passing point below the first failing one is left out of the level set
C13_Witness ==
    /\ C13_Case
    /\ last.raised = ""
    /\ \E i \in Points : cmax < V[i] /\ V[i] < C13_CStar

\* C14: update_safe_set (through max_safe_levelset and
\* line_search_bisection) leaves the caller-supplied interval list as it was:
\* after the call the list holds the lower and upper values it was passed
\* with.
C14_IntervalUnmodified ==
    (last.op = "update_safe_set" /\ last.arg # None) => interval = last.arg

\* C12: line_search_bisection terminates for every predicate, every interval
\* with lo <= hi and every accuracy > 0: each loop iteration halves hi - lo,
\* so the loop exits after at most ceil(log2((hi - lo) / accuracy)) midpoint
\* evaluations and the call returns.
C12_LineSearchTerminates == <>(fs.pc = "return")

\* The count of the claim: the number of halvings that bring hi - lo within
\* the accuracy, plus the two end-point checks.
RECURSIVE halvings(_, _, _)
halvings(width, accuracy, k) ==
    IF width <= accuracy * Pow2(k) THEN k ELSE halvings(width, accuracy, k + 1)

EvaluationsBounded ==
    fs.pc # "none" => fs.evals <= halvings(fs.arg[2] - fs.arg[1], fs.accuracy, 0) + 2

\* a call whose every midpoint is a float makes no more evaluations than that
RECURSIVE float_midpoints(_, _, _, _)
float_midpoints(c, lo, hi, accuracy) ==
    IF hi - lo > accuracy
    THEN /\ (lo + hi) % 2 = 0
         /\ is_float((lo + hi) \div 2)
         /\ IF (lo + hi) \div 2 < c
            THEN float_midpoints(c, (lo + hi) \div 2, hi, accuracy)
            ELSE float_midpoints(c, lo, (lo + hi) \div 2, accuracy)
    ELSE TRUE

ExactEvaluationsBounded ==
    (fs.pc # "none" /\ float_midpoints(fs.c, fs.arg[1], fs.arg[2], fs.accuracy)) =>
        EvaluationsBounded /\ (fs.pc = "body" => fs.evals < MaxEvals)

====
